---------------------------- MODULE Spec2Model ----------------------------
(***************************************************************************)
(* Payment-streaming contracts of the stellar_client repository.           *)
(*                                                                         *)
(* Two contracts are modelled, each from its own source file:              *)
(*   "payment" : contracts/payment-stream/src/lib.rs                       *)
(*   "nft"     : contracts/nft-stream/src/lib.rs                           *)
(* One behaviour is the life of one deployed contract; `contract` says     *)
(* which one.  Every public entry point is one action: a Soroban           *)
(* invocation runs to completion, and an invocation that returns Err or    *)
(* panics (a failed require_auth, panic_with_error!, a failing token       *)
(* transfer) is rolled back by the host, so a failing call changes nothing *)
(* but the recorded outcome `last`.  The host runs one invocation at a     *)
(* time: an invocation starts when no result is pending (last = Idle),     *)
(* and Return hands its result to the caller.                              *)
(*                                                                         *)
(* Environment:                                                            *)
(*   - the contract has been initialized (admin set, counters 0), as every *)
(*     test of the repository does right after registering it;             *)
(*   - one token contract, with balances `bal`; token.transfer fails when  *)
(*     the payer's balance is too small;                                   *)
(*   - `caller` of a call is the address whose authorization accompanies   *)
(*     it; a.require_auth() passes exactly when caller = a;                *)
(*   - the ledger timestamp `now` never decreases.                         *)
(***************************************************************************)
EXTENDS Integers, FiniteSets, Sequences, TLC

\* ------------------------------------------------------------------ bounds
MaxStreams == 2
MaxTime == 2
MaxAmount == 2

\* --------------------------------------------------------------- universes
Contracts == {"payment", "nft"}
Self == "contract"
Addresses == {"alice", "bob", "carol"}
Senders == {"alice"}
Recipients == {"bob"}
NewRecipients == {"carol"}
Token == "token"
InitialBalance == MaxAmount + 1
Times == 0..MaxTime
Amounts == 0..MaxAmount

VARIABLES
    contract,             \* which contract is deployed
    now,                  \* env.ledger().timestamp()
    admin,                \* instance storage: Admin / "admin"
    stream_counter,       \* instance storage: StreamCounter / "stream_count"
    ownership_counter,    \* instance storage: OwnershipCounter (nft)
    streams,              \* persistent storage: Stream(id) / id  -> Stream
    ownership,            \* persistent storage: StreamOwnershipRecord(id)
    ownership_to_stream,  \* persistent storage: OwnershipToStream(id)
    bal,                  \* balances kept by the token contract
    last                  \* outcome of the most recent call

vars == <<contract, now, admin, stream_counter, ownership_counter, streams,
          ownership, ownership_to_stream, bal, last>>

store == <<admin, stream_counter, ownership_counter, streams, ownership,
           ownership_to_stream, bal>>

\* ------------------------------------------------------------ pure helpers
\* Rust's integer `/` truncates toward zero.
Div(a, b) ==
    IF a >= 0 THEN a \div b ELSE -((-a) \div b)

Put(f, k, v) ==
    [x \in (DOMAIN f) \cup {k} |-> IF x = k THEN v ELSE f[x]]

\* token::Client::transfer(from, to, amount) on the balances b
CanTransfer(b, from, amount) ==
    amount >= 0 /\ b[from] >= amount

Transfer(b, from, to, amount) ==
    [a \in DOMAIN b |->
        b[a] - (IF a = from THEN amount ELSE 0) + (IF a = to THEN amount ELSE 0)]

\* The key of a record in persistent storage.
StreamKey(id) == <<"stream", id>>

OwnershipKey(id) == <<"ownership", id>>

\* The operations of payment-stream that end having called
\* env.storage().persistent().bump(&stream_id, ..): create_stream after its
\* set, get_stream before its get, and every other one, which loads the
\* stream through get_stream and bumps again after its set.
BumpingOps ==
    {"create_stream", "get_stream", "withdrawable_amount", "withdraw",
     "withdraw_max", "pause_stream", "resume_stream", "cancel_stream"}

\* The records whose lease a successful call `op` on stream `id` renewed.
\* payment-stream bumps the stream it stored or found (get_stream bumps
\* nothing when no stream is stored under the id); nft-stream has no call
\* that renews a lease. The bump of the instance storage (admin, counter) in
\* payment-stream is no lease of a record.
renewed_leases(op, id) ==
    IF /\ contract = "payment"
       /\ op \in BumpingOps
       /\ (op = "create_stream" \/ id \in DOMAIN streams)
    THEN {StreamKey(id)}
    ELSE {}

\* What a call returned: the operation, the stream id it was about (0, which
\* is never issued, when it has none), the result, the tokens it sent to the
\* stream's owner and to its sender, the value a read handed back: <<v>>
\* for a value v (Some(v) of an Option), <<>> for none (None of an Option),
\* and the records whose lease it renewed (none when it failed: the host
\* rolls the renewal back with everything else).
Outcome(op, id, res, owner_paid, sender_paid) ==
    [op |-> op, id |-> id, res |-> res,
     to_owner |-> owner_paid, to_sender |-> sender_paid, value |-> <<>>,
     renewed |-> IF res = "Ok" THEN renewed_leases(op, id) ELSE {}]

\* A read that succeeded: nothing is written, `value` goes to the caller.
Returned(op, id, value) ==
    /\ last' = [Outcome(op, id, "Ok", 0, 0) EXCEPT !.value = value]
    /\ UNCHANGED <<contract, now, store>>

\* No invocation has a result pending.
Idle == Outcome("none", 0, "Ok", 0, 0)

\* The contract `c` is the one deployed and the host is free to run a call.
Invoke(c) ==
    contract = c /\ last = Idle

\* A call that fails: the host rolls every write back.
Fail(op, id, res) ==
    /\ last' = Outcome(op, id, res, 0, 0)
    /\ UNCHANGED <<contract, now, store>>

\* ------------------------------------------------------ vesting (nft-stream)
\* Mutant of calculate_vested: the cap at end_time is forgotten.
calculate_vested_uncapped(stream, current_time) ==
    IF current_time < stream.start_time THEN 0
    ELSE Div(stream.total_amount * (current_time - stream.start_time),
             stream.end_time - stream.start_time)

calculate_vested(stream, current_time) ==
    IF current_time < stream.start_time THEN 0
    ELSE IF current_time >= stream.end_time THEN stream.total_amount
    ELSE LET elapsed == current_time - stream.start_time
             duration == stream.end_time - stream.start_time
         IN  Div(stream.total_amount * elapsed, duration)

calculate_claimable(stream, current_time) ==
    calculate_vested(stream, current_time) - stream.withdrawn_amount

\* -------------------------------------------------- vesting (payment-stream)
\* Mutant of withdrawable_of: the vested amount is rounded up, not down.
withdrawable_of_rounded_up(stream, current_time) ==
    IF stream.status # "Active" THEN 0
    ELSE IF current_time <= stream.start_time THEN 0
    ELSE LET elapsed == IF current_time >= stream.end_time
                        THEN stream.end_time - stream.start_time
                        ELSE current_time - stream.start_time
             duration == stream.end_time - stream.start_time
             vested == Div(stream.total_amount * elapsed + duration - 1, duration)
         IN  vested - stream.withdrawn_amount

\* withdrawable_amount of a stream that exists (the caller has handled None)
withdrawable_of(stream, current_time) ==
    IF stream.status # "Active" THEN 0
    ELSE IF current_time <= stream.start_time THEN 0
    ELSE LET elapsed == IF current_time >= stream.end_time
                        THEN stream.end_time - stream.start_time
                        ELSE current_time - stream.start_time
             duration == stream.end_time - stream.start_time
             vested == Div(stream.total_amount * elapsed, duration)
         IN  vested - stream.withdrawn_amount

\* --------------------------------------------------------------------- Init
Init ==
    /\ contract \in Contracts
    /\ now = 0
    /\ admin = "admin"
    /\ stream_counter = 0
    /\ ownership_counter = 0
    /\ streams = <<>>
    /\ ownership = <<>>
    /\ ownership_to_stream = <<>>
    /\ bal = [a \in Addresses \cup {Self} |-> IF a = Self THEN 0 ELSE InitialBalance]
    /\ last = Idle

\* The ledger closes: the timestamp moves on.
Tick ==
    /\ last = Idle
    /\ now < MaxTime
    /\ now' = now + 1
    /\ UNCHANGED <<contract, store, last>>

\* The result of the invocation is delivered to its caller.
Return ==
    /\ last # Idle
    /\ last' = Idle
    /\ UNCHANGED <<contract, now, store>>

\* ------------------------------------------------------------- stream ids
\* Mutant of next_stream_id: the counter's value is issued again.
next_stream_id_same(stream_count) ==
    stream_count

\* let stream_id = stream_count + 1  (new_stream_id = stream_id + 1 in nft-stream)
next_stream_id(stream_count) ==
    stream_count + 1

\* ============================================================ payment-stream
pay_create_stream_result(caller, sender, total_amount, start_time, end_time) ==
    IF caller # sender THEN "Unauthorized"
    ELSE IF total_amount <= 0 THEN "InvalidAmount"
    ELSE IF end_time <= start_time THEN "InvalidTimeRange"
    ELSE IF ~CanTransfer(bal, sender, total_amount) THEN "TokenTransferFailed"
    ELSE "Ok"

\* Mutant of pay_new_stream: the new stream is stored Paused.
pay_new_stream_paused(stream_id, sender, recipient, total_amount, start_time, end_time) ==
    [id |-> stream_id, sender |-> sender, recipient |-> recipient,
     token |-> Token, total_amount |-> total_amount, withdrawn_amount |-> 0,
     start_time |-> start_time, end_time |-> end_time, status |-> "Paused"]

pay_new_stream(stream_id, sender, recipient, total_amount, start_time, end_time) ==
    [id |-> stream_id, sender |-> sender, recipient |-> recipient,
     token |-> Token, total_amount |-> total_amount, withdrawn_amount |-> 0,
     start_time |-> start_time, end_time |-> end_time, status |-> "Active"]

pay_create_stream(caller, sender, recipient, total_amount, start_time, end_time) ==
    LET res == pay_create_stream_result(caller, sender, total_amount, start_time, end_time)
        stream_id == next_stream_id(stream_counter)
        stream == pay_new_stream(stream_id, sender, recipient, total_amount,
                                 start_time, end_time)
    IN  /\ Invoke("payment")
        /\ stream_counter < MaxStreams
        /\ IF res # "Ok" THEN Fail("create_stream", 0, res)
           ELSE /\ stream_counter' = stream_counter + 1
                /\ streams' = Put(streams, stream_id, stream)
                /\ bal' = Transfer(bal, sender, Self, total_amount)
                /\ last' = Outcome("create_stream", stream_id, "Ok", 0, 0)
                /\ UNCHANGED <<contract, now, admin, ownership_counter, ownership,
                               ownership_to_stream>>

\* withdrawable_amount(stream_id): panics with StreamNotFound on a missing id
withdrawable_amount(stream_id) ==
    withdrawable_of(streams[stream_id], now)

\* Mutant of pay_get_stream_value: the record is returned with what is
\* withdrawable at the time of the read already counted as withdrawn.
pay_get_stream_value_live(stream_id) ==
    IF stream_id \notin DOMAIN streams THEN <<>>
    ELSE <<[streams[stream_id] EXCEPT
               !.withdrawn_amount = @ + withdrawable_amount(stream_id)]>>

\* get_stream(stream_id) -> Option<Stream>: None when nothing is stored
pay_get_stream_value(stream_id) ==
    IF stream_id \notin DOMAIN streams THEN <<>> ELSE <<streams[stream_id]>>

\* get_stream never fails; the lease it renews is no field of the record.
pay_get_stream(stream_id) ==
    /\ Invoke("payment")
    /\ Returned("get_stream", stream_id, pay_get_stream_value(stream_id))

\* withdrawable_amount(stream_id) called from outside the contract
pay_withdrawable_amount(stream_id) ==
    /\ Invoke("payment")
    /\ IF stream_id \notin DOMAIN streams
       THEN Fail("withdrawable_amount", stream_id, "StreamNotFound")
       ELSE Returned("withdrawable_amount", stream_id, <<withdrawable_amount(stream_id)>>)

\* Mutant of withdraw_result: stream.recipient.require_auth() is missing.
withdraw_result_no_auth(caller, stream_id, amount) ==
    IF stream_id \notin DOMAIN streams THEN "StreamNotFound"
    ELSE IF amount > withdrawable_amount(stream_id) \/ amount <= 0
         THEN "InsufficientWithdrawable"
    ELSE IF ~CanTransfer(bal, Self, amount) THEN "TokenTransferFailed"
    ELSE "Ok"

\* Mutant of withdraw_result: the whole withdrawable amount is refused too.
withdraw_result_strict(caller, stream_id, amount) ==
    IF stream_id \notin DOMAIN streams THEN "StreamNotFound"
    ELSE IF caller # streams[stream_id].recipient THEN "Unauthorized"
    ELSE IF amount >= withdrawable_amount(stream_id) \/ amount <= 0
         THEN "InsufficientWithdrawable"
    ELSE IF ~CanTransfer(bal, Self, amount) THEN "TokenTransferFailed"
    ELSE "Ok"

withdraw_result(caller, stream_id, amount) ==
    IF stream_id \notin DOMAIN streams THEN "StreamNotFound"
    ELSE IF caller # streams[stream_id].recipient THEN "Unauthorized"
    ELSE IF amount > withdrawable_amount(stream_id) \/ amount <= 0
         THEN "InsufficientWithdrawable"
    ELSE IF ~CanTransfer(bal, Self, amount) THEN "TokenTransferFailed"
    ELSE "Ok"

\* stream.withdrawn_amount += amount; Completed once it reaches total_amount
withdraw_update(stream, amount) ==
    LET withdrawn == stream.withdrawn_amount + amount
    IN  [stream EXCEPT !.withdrawn_amount = withdrawn,
                       !.status = IF withdrawn >= stream.total_amount
                                  THEN "Completed" ELSE @]

\* The writes of a withdraw that passed its checks.
withdraw_effect(op, stream_id, amount) ==
    LET stream == streams[stream_id]
    IN  /\ streams' = [streams EXCEPT ![stream_id] = withdraw_update(stream, amount)]
        /\ bal' = Transfer(bal, Self, stream.recipient, amount)
        /\ last' = Outcome(op, stream_id, "Ok", amount, 0)
        /\ UNCHANGED <<contract, now, admin, stream_counter, ownership_counter,
                       ownership, ownership_to_stream>>

withdraw(caller, stream_id, amount) ==
    LET res == withdraw_result(caller, stream_id, amount)
    IN  /\ Invoke("payment")
        /\ IF res # "Ok" THEN Fail("withdraw", stream_id, res)
           ELSE withdraw_effect("withdraw", stream_id, amount)

\* Mutant of withdraw_max_result: the amount is tested after the authorization.
withdraw_max_result_auth_first(caller, stream_id) ==
    IF stream_id \notin DOMAIN streams THEN "StreamNotFound"
    ELSE withdraw_result(caller, stream_id, withdrawable_amount(stream_id))

withdraw_max_result(caller, stream_id) ==
    IF stream_id \notin DOMAIN streams THEN "StreamNotFound"
    ELSE IF withdrawable_amount(stream_id) <= 0 THEN "InsufficientWithdrawable"
    ELSE withdraw_result(caller, stream_id, withdrawable_amount(stream_id))

withdraw_max(caller, stream_id) ==
    LET res == withdraw_max_result(caller, stream_id)
    IN  /\ Invoke("payment")
        /\ IF res # "Ok" THEN Fail("withdraw_max", stream_id, res)
           ELSE withdraw_effect("withdraw_max", stream_id, withdrawable_amount(stream_id))

\* Mutant of pause_update: the pause also forgets what was withdrawn.
pause_update_reset(stream) ==
    [stream EXCEPT !.status = "Paused", !.withdrawn_amount = 0]

pause_update(stream) ==
    [stream EXCEPT !.status = "Paused"]

pause_stream_result(caller, stream_id) ==
    IF stream_id \notin DOMAIN streams THEN "StreamNotFound"
    ELSE IF caller # streams[stream_id].sender THEN "Unauthorized"
    ELSE IF streams[stream_id].status # "Active" THEN "StreamNotActive"
    ELSE "Ok"

pause_stream(caller, stream_id) ==
    LET res == pause_stream_result(caller, stream_id)
    IN  /\ Invoke("payment")
        /\ IF res # "Ok" THEN Fail("pause_stream", stream_id, res)
           ELSE /\ streams' = [streams EXCEPT ![stream_id] = pause_update(@)]
                /\ last' = Outcome("pause_stream", stream_id, "Ok", 0, 0)
                /\ UNCHANGED <<contract, now, admin, stream_counter, ownership_counter,
                               ownership, ownership_to_stream, bal>>

\* Mutant of resume_update: the schedule is put off by one unit of time.
resume_update_postponed(stream) ==
    [stream EXCEPT !.status = "Active", !.start_time = @ + 1, !.end_time = @ + 1]

resume_update(stream) ==
    [stream EXCEPT !.status = "Active"]

\* Mutant of resume_stream_result: the wrong error for a stream not Paused.
resume_stream_result_not_active(caller, stream_id) ==
    IF stream_id \notin DOMAIN streams THEN "StreamNotFound"
    ELSE IF caller # streams[stream_id].sender THEN "Unauthorized"
    ELSE IF streams[stream_id].status # "Paused" THEN "StreamNotActive"
    ELSE "Ok"

resume_stream_result(caller, stream_id) ==
    IF stream_id \notin DOMAIN streams THEN "StreamNotFound"
    ELSE IF caller # streams[stream_id].sender THEN "Unauthorized"
    ELSE IF streams[stream_id].status # "Paused" THEN "StreamNotPaused"
    ELSE "Ok"

resume_stream(caller, stream_id) ==
    LET res == resume_stream_result(caller, stream_id)
    IN  /\ Invoke("payment")
        /\ IF res # "Ok" THEN Fail("resume_stream", stream_id, res)
           ELSE /\ streams' = [streams EXCEPT ![stream_id] = resume_update(@)]
                /\ last' = Outcome("resume_stream", stream_id, "Ok", 0, 0)
                /\ UNCHANGED <<contract, now, admin, stream_counter, ownership_counter,
                               ownership, ownership_to_stream, bal>>

pay_cancel_update(stream) ==
    [stream EXCEPT !.status = "Canceled"]

\* remaining = total_amount - withdrawn_amount, refunded to the sender
pay_cancel_remaining(stream) ==
    stream.total_amount - stream.withdrawn_amount

pay_cancel_stream_result(caller, stream_id) ==
    IF stream_id \notin DOMAIN streams THEN "StreamNotFound"
    ELSE IF caller # streams[stream_id].sender THEN "Unauthorized"
    ELSE IF streams[stream_id].status # "Active" /\ streams[stream_id].status # "Paused"
         THEN "StreamCannotBeCanceled"
    ELSE IF pay_cancel_remaining(streams[stream_id]) > 0
            /\ ~CanTransfer(bal, Self, pay_cancel_remaining(streams[stream_id]))
         THEN "TokenTransferFailed"
    ELSE "Ok"

pay_cancel_stream(caller, stream_id) ==
    LET res == pay_cancel_stream_result(caller, stream_id)
        stream == streams[stream_id]
        remaining == pay_cancel_remaining(stream)
    IN  /\ Invoke("payment")
        /\ IF res # "Ok" THEN Fail("cancel_stream", stream_id, res)
           ELSE /\ streams' = [streams EXCEPT ![stream_id] = pay_cancel_update(@)]
                /\ bal' = IF remaining > 0
                          THEN Transfer(bal, Self, stream.sender, remaining)
                          ELSE bal
                /\ last' = Outcome("cancel_stream", stream_id, "Ok", 0,
                                   IF remaining > 0 THEN remaining ELSE 0)
                /\ UNCHANGED <<contract, now, admin, stream_counter, ownership_counter,
                               ownership, ownership_to_stream>>

\* ================================================================ nft-stream
\* Mutant of new_ownership_record: the record does not name its stream.
new_ownership_record_unlinked(recipient, stream_id, minted_at) ==
    [stream_id |-> 0, owner |-> recipient, minted_at |-> minted_at]

new_ownership_record(recipient, stream_id, minted_at) ==
    [stream_id |-> stream_id, owner |-> recipient, minted_at |-> minted_at]

mint_ownership_record(recipient, stream_id) ==
    LET new_ownership_id == ownership_counter + 1
    IN  /\ ownership_counter' = new_ownership_id
        /\ ownership' = Put(ownership, new_ownership_id,
                            new_ownership_record(recipient, stream_id, now))
        /\ ownership_to_stream' = Put(ownership_to_stream, new_ownership_id, stream_id)

nft_create_stream_result(caller, sender, total_amount, start_time, end_time) ==
    IF caller # sender THEN "Unauthorized"
    ELSE IF total_amount <= 0 THEN "InvalidAmount"
    ELSE IF start_time >= end_time THEN "InvalidTimeRange"
    ELSE IF start_time < now THEN "InvalidStartTime"
    ELSE IF ~CanTransfer(bal, sender, total_amount) THEN "TokenTransferFailed"
    ELSE "Ok"

nft_new_stream(new_stream_id, sender, recipient, total_amount, start_time, end_time, transferable, ownership_id) ==
    [id |-> new_stream_id, sender |-> sender, recipient |-> recipient,
     token |-> Token, total_amount |-> total_amount, withdrawn_amount |-> 0,
     start_time |-> start_time, end_time |-> end_time, status |-> "Active",
     transferable |-> transferable, ownership_id |-> ownership_id]

nft_create_stream(caller, sender, recipient, total_amount, start_time, end_time, transferable) ==
    LET res == nft_create_stream_result(caller, sender, total_amount, start_time, end_time)
        new_stream_id == next_stream_id(stream_counter)
        stream == nft_new_stream(new_stream_id, sender, recipient, total_amount,
                                 start_time, end_time, transferable,
                                 ownership_counter + 1)
    IN  /\ Invoke("nft")
        /\ stream_counter < MaxStreams
        /\ IF res # "Ok" THEN Fail("create_stream", 0, res)
           ELSE /\ bal' = Transfer(bal, sender, Self, total_amount)
                /\ stream_counter' = new_stream_id
                /\ mint_ownership_record(recipient, new_stream_id)
                /\ streams' = Put(streams, new_stream_id, stream)
                /\ last' = Outcome("create_stream", new_stream_id, "Ok", 0, 0)
                /\ UNCHANGED <<contract, now, admin>>

\* Mutant of transfer_update: the new address is written to the wrong field.
transfer_update_sender(stream, new_recipient) ==
    [stream EXCEPT !.sender = new_recipient]

transfer_update(stream, new_recipient) ==
    [stream EXCEPT !.recipient = new_recipient]

\* Mutant of transfer_owner_update: the ownership record keeps its old owner.
transfer_owner_update_kept(ownership_record, new_recipient) ==
    ownership_record

\* ownership_record.owner = new_recipient
transfer_owner_update(ownership_record, new_recipient) ==
    [ownership_record EXCEPT !.owner = new_recipient]

\* Mutant of transfer_stream_result: the status check is missing.
transfer_stream_result_any_status(caller, stream_id) ==
    IF stream_id \notin DOMAIN streams THEN "StreamNotFound"
    ELSE IF ~streams[stream_id].transferable THEN "StreamNotTransferable"
    ELSE IF streams[stream_id].ownership_id \notin DOMAIN ownership
         THEN "OwnershipRecordNotFound"
    ELSE IF caller # ownership[streams[stream_id].ownership_id].owner THEN "Unauthorized"
    ELSE "Ok"

\* Mutant of transfer_stream_result: the transferable flag is not looked at.
transfer_stream_result_ungated(caller, stream_id) ==
    IF stream_id \notin DOMAIN streams THEN "StreamNotFound"
    ELSE IF streams[stream_id].status # "Active" THEN "StreamNotActive"
    ELSE IF streams[stream_id].ownership_id \notin DOMAIN ownership
         THEN "OwnershipRecordNotFound"
    ELSE IF caller # ownership[streams[stream_id].ownership_id].owner THEN "Unauthorized"
    ELSE "Ok"

transfer_stream_result(caller, stream_id) ==
    IF stream_id \notin DOMAIN streams THEN "StreamNotFound"
    ELSE IF streams[stream_id].status # "Active" THEN "StreamNotActive"
    ELSE IF ~streams[stream_id].transferable THEN "StreamNotTransferable"
    ELSE IF streams[stream_id].ownership_id \notin DOMAIN ownership
         THEN "OwnershipRecordNotFound"
    ELSE IF caller # ownership[streams[stream_id].ownership_id].owner THEN "Unauthorized"
    ELSE "Ok"

transfer_stream(caller, stream_id, new_recipient) ==
    LET res == transfer_stream_result(caller, stream_id)
        ownership_id == streams[stream_id].ownership_id
    IN  /\ Invoke("nft")
        /\ IF res # "Ok" THEN Fail("transfer_stream", stream_id, res)
           ELSE /\ streams' = [streams EXCEPT ![stream_id] =
                                  transfer_update(@, new_recipient)]
                /\ ownership' = [ownership EXCEPT ![ownership_id] =
                                    transfer_owner_update(@, new_recipient)]
                /\ last' = Outcome("transfer_stream", stream_id, "Ok", 0, 0)
                /\ UNCHANGED <<contract, now, admin, stream_counter, ownership_counter,
                               ownership_to_stream, bal>>

\* Mutant of claim_update: Completed only when withdrawn exceeds total_amount.
claim_update_strict(stream, claimable) ==
    LET withdrawn == stream.withdrawn_amount + claimable
    IN  [stream EXCEPT !.withdrawn_amount = withdrawn,
                       !.status = IF withdrawn > stream.total_amount
                                  THEN "Completed" ELSE @]

\* stream.withdrawn_amount += claimable; Completed once it reaches total_amount
claim_update(stream, claimable) ==
    LET withdrawn == stream.withdrawn_amount + claimable
    IN  [stream EXCEPT !.withdrawn_amount = withdrawn,
                       !.status = IF withdrawn >= stream.total_amount
                                  THEN "Completed" ELSE @]

\* Mutant of claim_result: ownership_record.owner.require_auth() is missing.
claim_result_any_caller(caller, stream_id) ==
    IF stream_id \notin DOMAIN streams THEN "StreamNotFound"
    ELSE IF streams[stream_id].status # "Active" THEN "StreamNotActive"
    ELSE IF streams[stream_id].ownership_id \notin DOMAIN ownership
         THEN "OwnershipRecordNotFound"
    ELSE IF calculate_claimable(streams[stream_id], now) <= 0 THEN "NoTokensToClaim"
    ELSE IF ~CanTransfer(bal, Self, calculate_claimable(streams[stream_id], now))
         THEN "TokenTransferFailed"
    ELSE "Ok"

claim_result(caller, stream_id) ==
    IF stream_id \notin DOMAIN streams THEN "StreamNotFound"
    ELSE IF streams[stream_id].status # "Active" THEN "StreamNotActive"
    ELSE IF streams[stream_id].ownership_id \notin DOMAIN ownership
         THEN "OwnershipRecordNotFound"
    ELSE IF caller # ownership[streams[stream_id].ownership_id].owner THEN "Unauthorized"
    ELSE IF calculate_claimable(streams[stream_id], now) <= 0 THEN "NoTokensToClaim"
    ELSE IF ~CanTransfer(bal, Self, calculate_claimable(streams[stream_id], now))
         THEN "TokenTransferFailed"
    ELSE "Ok"

claim(caller, stream_id) ==
    LET res == claim_result(caller, stream_id)
        stream == streams[stream_id]
        owner == ownership[stream.ownership_id].owner
        claimable == calculate_claimable(stream, now)
    IN  /\ Invoke("nft")
        /\ IF res # "Ok" THEN Fail("claim", stream_id, res)
           ELSE /\ streams' = [streams EXCEPT ![stream_id] = claim_update(stream, claimable)]
                /\ bal' = Transfer(bal, Self, owner, claimable)
                /\ last' = Outcome("claim", stream_id, "Ok", claimable, 0)
                /\ UNCHANGED <<contract, now, admin, stream_counter, ownership_counter,
                               ownership, ownership_to_stream>>

\* Mutant of get_claimable: the status of the stream is not looked at.
get_claimable_any_status(stream_id) ==
    IF stream_id \notin DOMAIN streams THEN [res |-> "StreamNotFound", value |-> 0]
    ELSE [res |-> "Ok", value |-> calculate_claimable(streams[stream_id], now)]

\* get_claimable(stream_id): a read; what it returns
get_claimable(stream_id) ==
    IF stream_id \notin DOMAIN streams THEN [res |-> "StreamNotFound", value |-> 0]
    ELSE IF streams[stream_id].status # "Active" THEN [res |-> "Ok", value |-> 0]
    ELSE [res |-> "Ok", value |-> calculate_claimable(streams[stream_id], now)]

\* get_claimable(stream_id) called from outside the contract
nft_get_claimable(stream_id) ==
    /\ Invoke("nft")
    /\ IF get_claimable(stream_id).res # "Ok"
       THEN Fail("get_claimable", stream_id, get_claimable(stream_id).res)
       ELSE Returned("get_claimable", stream_id, <<get_claimable(stream_id).value>>)

\* get_stream(stream_id) -> Result<Stream, Error>
nft_get_stream(stream_id) ==
    /\ Invoke("nft")
    /\ IF stream_id \notin DOMAIN streams
       THEN Fail("get_stream", stream_id, "StreamNotFound")
       ELSE Returned("get_stream", stream_id, <<streams[stream_id]>>)

nft_cancel_update(stream) ==
    [stream EXCEPT !.status = "Canceled"]

\* cancel_stream transfers `vested` to the owner and `refund_amount` to the sender
nft_cancel_vested(stream) ==
    calculate_vested(stream, now)

nft_cancel_refund_amount(stream) ==
    stream.total_amount - nft_cancel_vested(stream)

\* Mutant of nft_cancel_stream_result: the refund leg is taken to succeed.
nft_cancel_stream_result_one_leg(caller, stream_id) ==
    IF stream_id \notin DOMAIN streams THEN "StreamNotFound"
    ELSE IF streams[stream_id].status # "Active" THEN "StreamNotActive"
    ELSE IF caller # streams[stream_id].sender THEN "Unauthorized"
    ELSE IF streams[stream_id].ownership_id \notin DOMAIN ownership
         THEN "OwnershipRecordNotFound"
    ELSE LET vested == nft_cancel_vested(streams[stream_id])
         IN  IF vested > 0 /\ ~CanTransfer(bal, Self, vested) THEN "TokenTransferFailed"
             ELSE "Ok"

nft_cancel_stream_result(caller, stream_id) ==
    IF stream_id \notin DOMAIN streams THEN "StreamNotFound"
    ELSE IF streams[stream_id].status # "Active" THEN "StreamNotActive"
    ELSE IF caller # streams[stream_id].sender THEN "Unauthorized"
    ELSE IF streams[stream_id].ownership_id \notin DOMAIN ownership
         THEN "OwnershipRecordNotFound"
    ELSE LET vested == nft_cancel_vested(streams[stream_id])
             refund_amount == nft_cancel_refund_amount(streams[stream_id])
             after_vested == IF vested > 0 THEN bal[Self] - vested ELSE bal[Self]
         IN  IF vested > 0 /\ ~CanTransfer(bal, Self, vested) THEN "TokenTransferFailed"
             ELSE IF refund_amount > 0 /\ after_vested < refund_amount
                  THEN "TokenTransferFailed"
             ELSE "Ok"

nft_cancel_stream(caller, stream_id) ==
    LET res == nft_cancel_stream_result(caller, stream_id)
        stream == streams[stream_id]
        owner == ownership[stream.ownership_id].owner
        vested == nft_cancel_vested(stream)
        refund_amount == nft_cancel_refund_amount(stream)
        paid_owner == IF vested > 0 THEN vested ELSE 0
        paid_sender == IF refund_amount > 0 THEN refund_amount ELSE 0
    IN  /\ Invoke("nft")
        /\ IF res # "Ok" THEN Fail("cancel_stream", stream_id, res)
           ELSE /\ streams' = [streams EXCEPT ![stream_id] = nft_cancel_update(@)]
                /\ bal' = Transfer(Transfer(bal, Self, owner, paid_owner),
                                   Self, stream.sender, paid_sender)
                /\ last' = Outcome("cancel_stream", stream_id, "Ok", paid_owner, paid_sender)
                /\ UNCHANGED <<contract, now, admin, stream_counter, ownership_counter,
                               ownership, ownership_to_stream>>

\* ================================================================== behaviour
StreamIds == 1..(MaxStreams + 1)

Next ==
    \/ Tick
    \/ Return
    \/ \E c \in Addresses, s \in Senders, r \in Recipients, a \in Amounts,
          st \in Times, en \in Times :
          pay_create_stream(c, s, r, a, st, en)
    \/ \E c \in Addresses, id \in StreamIds, a \in Amounts : withdraw(c, id, a)
    \/ \E c \in Addresses, id \in StreamIds : withdraw_max(c, id)
    \/ \E c \in Addresses, id \in StreamIds : pause_stream(c, id)
    \/ \E c \in Addresses, id \in StreamIds : resume_stream(c, id)
    \/ \E c \in Addresses, id \in StreamIds : pay_cancel_stream(c, id)
    \/ \E c \in Addresses, s \in Senders, r \in Recipients, a \in Amounts,
          st \in Times, en \in Times, tr \in BOOLEAN :
          nft_create_stream(c, s, r, a, st, en, tr)
    \/ \E c \in Addresses, id \in StreamIds, nr \in NewRecipients :
          transfer_stream(c, id, nr)
    \/ \E c \in Addresses, id \in StreamIds : claim(c, id)
    \/ \E c \in Addresses, id \in StreamIds : nft_cancel_stream(c, id)
    \/ \E id \in StreamIds : pay_get_stream(id)
    \/ \E id \in StreamIds : pay_withdrawable_amount(id)
    \/ \E id \in StreamIds : nft_get_stream(id)
    \/ \E id \in StreamIds : nft_get_claimable(id)

Spec == Init /\ [][Next]_vars

\* ------------------------------------------------- vesting over long windows
\* One stream, created by alice for bob at time 0, with amounts and windows
\* large enough for the rounding of the vesting schedule to show; the ledger
\* time then moves through VestTimes while the stream is claimed from,
\* paused and resumed.
VestTotals == {1, 7, 1000}
VestWindows == {<<0, 3>>, <<0, 100>>, <<10, 100>>}
VestTimes == {0, 1, 2, 3, 10, 50, 55, 100, 150}

InitVesting ==
    \E total \in VestTotals, w \in VestWindows, tr \in BOOLEAN :
        /\ contract \in Contracts
        /\ now = 0
        /\ admin = "admin"
        /\ stream_counter = 1
        /\ ownership_counter = IF contract = "nft" THEN 1 ELSE 0
        /\ streams = IF contract = "nft"
                     THEN <<nft_new_stream(1, "alice", "bob", total, w[1], w[2], tr, 1)>>
                     ELSE <<pay_new_stream(1, "alice", "bob", total, w[1], w[2])>>
        /\ ownership = IF contract = "nft"
                       THEN <<new_ownership_record("bob", 1, 0)>> ELSE <<>>
        /\ ownership_to_stream = IF contract = "nft" THEN <<1>> ELSE <<>>
        /\ bal = [a \in Addresses \cup {Self} |->
                     IF a = Self THEN total ELSE InitialBalance]
        /\ last = Idle

\* The ledger time jumps to a later timestamp.
AdvanceTo(t) ==
    /\ last = Idle
    /\ t > now
    /\ now' = t
    /\ UNCHANGED <<contract, store, last>>

NextVesting ==
    \/ \E t \in VestTimes : AdvanceTo(t)
    \/ Return
    \/ \E c \in Addresses, id \in StreamIds : withdraw_max(c, id)
    \/ \E c \in Addresses, id \in StreamIds : pause_stream(c, id)
    \/ \E c \in Addresses, id \in StreamIds : resume_stream(c, id)
    \/ \E c \in Addresses, id \in StreamIds : claim(c, id)

SpecVesting == InitVesting /\ [][NextVesting]_vars

\* ------------------------------------------------- time that passes in pause
\* One payment-stream stream, created as in InitVesting, for which the ledger
\* time moves on only while the stream is Paused: whatever has vested at a
\* time now > 0 has vested during a pause.
InitPause ==
    InitVesting /\ contract = "payment"

PausedAdvanceTo(t) ==
    /\ \A id \in DOMAIN streams : streams[id].status = "Paused"
    /\ AdvanceTo(t)

NextPause ==
    \/ \E t \in VestTimes : PausedAdvanceTo(t)
    \/ Return
    \/ \E c \in Addresses, id \in StreamIds : pause_stream(c, id)
    \/ \E c \in Addresses, id \in StreamIds : resume_stream(c, id)
    \/ \E c \in Addresses, id \in StreamIds, a \in Amounts : withdraw(c, id, a)
    \/ \E c \in Addresses, id \in StreamIds : withdraw_max(c, id)
    \/ \E id \in StreamIds : pay_withdrawable_amount(id)

SpecPause == InitPause /\ [][NextPause]_vars

\* ------------------------------------------------------------ initialization
\* The contract from its deployment on. Nothing is stored at first: no admin,
\* no counter (create_stream reads a missing counter as 0), no stream.
\* initialize may come at any time, also after streams were created.
NoAdmin == "none"

Admins == {"admin"}

InitDeployed ==
    /\ contract \in Contracts
    /\ now = 0
    /\ admin = NoAdmin
    /\ stream_counter = 0
    /\ ownership_counter = 0
    /\ streams = <<>>
    /\ ownership = <<>>
    /\ ownership_to_stream = <<>>
    /\ bal = [a \in Addresses \cup {Self} |-> IF a = Self THEN 0 ELSE InitialBalance]
    /\ last = Idle

\* AlreadyInitialized once an admin is stored, then admin.require_auth()
initialize_result(caller, new_admin) ==
    IF admin # NoAdmin THEN "AlreadyInitialized"
    ELSE IF caller # new_admin THEN "Unauthorized"
    ELSE "Ok"

\* payment-stream initialize(admin): stores the admin and stream_count = 0
pay_initialize(caller, new_admin) ==
    LET res == initialize_result(caller, new_admin)
    IN  /\ Invoke("payment")
        /\ IF res # "Ok" THEN Fail("initialize", 0, res)
           ELSE /\ admin' = new_admin
                /\ stream_counter' = 0
                /\ last' = Outcome("initialize", 0, "Ok", 0, 0)
                /\ UNCHANGED <<contract, now, ownership_counter, streams, ownership,
                               ownership_to_stream, bal>>

\* nft-stream initialize(admin): stores the admin, StreamCounter = 0 and
\* OwnershipCounter = 0
nft_initialize(caller, new_admin) ==
    LET res == initialize_result(caller, new_admin)
    IN  /\ Invoke("nft")
        /\ IF res # "Ok" THEN Fail("initialize", 0, res)
           ELSE /\ admin' = new_admin
                /\ stream_counter' = 0
                /\ ownership_counter' = 0
                /\ last' = Outcome("initialize", 0, "Ok", 0, 0)
                /\ UNCHANGED <<contract, now, streams, ownership,
                               ownership_to_stream, bal>>

NextInit ==
    \/ Tick
    \/ Return
    \/ \E c \in Admins \cup Senders, a \in Admins : pay_initialize(c, a)
    \/ \E c \in Admins \cup Senders, a \in Admins : nft_initialize(c, a)
    \/ \E c \in Addresses, s \in Senders, r \in Recipients, a \in Amounts,
          st \in Times, en \in Times :
            pay_create_stream(c, s, r, a, st, en)
    \/ \E c \in Addresses, s \in Senders, r \in Recipients, a \in Amounts,
          st \in Times, en \in Times, tr \in BOOLEAN :
            nft_create_stream(c, s, r, a, st, en, tr)
    \/ \E id \in StreamIds : pay_get_stream(id)
    \/ \E id \in StreamIds : nft_get_stream(id)

SpecInit == InitDeployed /\ [][NextInit]_vars

\* ------------------------------------------------ vesting in the i128 width
\* total_amount * elapsed is computed in i128. The width is scaled down here
\* to I128Bits value bits (127 in the contracts) so that the products can be
\* written down: an i128 holds -2^I128Bits .. 2^I128Bits - 1.
I128Bits == 20

I128_MAX == 2^I128Bits - 1

\* Two's complement wrap-around of a value that left the width.
wrap_i128(x) ==
    ((x + 2^I128Bits) % 2^(I128Bits + 1)) - 2^I128Bits

\* a * b in i128, for a, b >= 0: the product when it fits; when it does not,
\* what the build makes of it: a panic where overflow checks are compiled in,
\* the wrapped value where they are not.
mul_i128(a, b) ==
    IF a * b <= I128_MAX
    THEN {[res |-> "Ok", value |-> a * b]}
    ELSE {[res |-> "ArithmeticOverflow", value |-> 0],
          [res |-> "Ok", value |-> wrap_i128(a * b)]}

\* calculate_claimable of nft-stream with the product taken in i128
calculate_claimable_i128(stream, current_time) ==
    IF current_time < stream.start_time
    THEN {[res |-> "Ok", value |-> 0 - stream.withdrawn_amount]}
    ELSE IF current_time >= stream.end_time
    THEN {[res |-> "Ok", value |-> stream.total_amount - stream.withdrawn_amount]}
    ELSE LET elapsed == current_time - stream.start_time
             duration == stream.end_time - stream.start_time
         IN  {[res |-> p.res,
               value |-> Div(p.value, duration) - stream.withdrawn_amount] :
                 p \in mul_i128(stream.total_amount, elapsed)}

\* withdrawable_amount of payment-stream with the product taken in i128
withdrawable_of_i128(stream, current_time) ==
    IF stream.status # "Active" THEN {[res |-> "Ok", value |-> 0]}
    ELSE IF current_time <= stream.start_time THEN {[res |-> "Ok", value |-> 0]}
    ELSE LET elapsed == IF current_time >= stream.end_time
                        THEN stream.end_time - stream.start_time
                        ELSE current_time - stream.start_time
             duration == stream.end_time - stream.start_time
         IN  {[res |-> p.res,
               value |-> Div(p.value, duration) - stream.withdrawn_amount] :
                 p \in mul_i128(stream.total_amount, elapsed)}

\* get_claimable(stream_id) of nft-stream on a stored Active stream
get_claimable_i128(stream_id) ==
    /\ Invoke("nft")
    /\ stream_id \in DOMAIN streams
    /\ streams[stream_id].status = "Active"
    /\ \E o \in calculate_claimable_i128(streams[stream_id], now) :
           IF o.res # "Ok" THEN Fail("get_claimable", stream_id, o.res)
           ELSE Returned("get_claimable", stream_id, <<o.value>>)

\* withdrawable_amount(stream_id) of payment-stream on a stored stream
withdrawable_amount_i128(stream_id) ==
    /\ Invoke("payment")
    /\ stream_id \in DOMAIN streams
    /\ \E o \in withdrawable_of_i128(streams[stream_id], now) :
           IF o.res # "Ok" THEN Fail("withdrawable_amount", stream_id, o.res)
           ELSE Returned("withdrawable_amount", stream_id, <<o.value>>)

\* One stream, stored as create_stream stores it, with a total anywhere in
\* the width.
WidthTotals == {1, 1000, (I128_MAX + 1) \div 4, (I128_MAX + 1) \div 2, I128_MAX}

InitWidth ==
    \E total \in WidthTotals, w \in VestWindows, tr \in BOOLEAN :
        /\ contract \in Contracts
        /\ now = 0
        /\ admin = "admin"
        /\ stream_counter = 1
        /\ ownership_counter = IF contract = "nft" THEN 1 ELSE 0
        /\ streams = IF contract = "nft"
                     THEN <<nft_new_stream(1, "alice", "bob", total, w[1], w[2], tr, 1)>>
                     ELSE <<pay_new_stream(1, "alice", "bob", total, w[1], w[2])>>
        /\ ownership = IF contract = "nft"
                       THEN <<new_ownership_record("bob", 1, 0)>> ELSE <<>>
        /\ ownership_to_stream = IF contract = "nft" THEN <<1>> ELSE <<>>
        /\ bal = [a \in Addresses \cup {Self} |->
                     IF a = Self THEN total ELSE InitialBalance]
        /\ last = Idle

NextWidth ==
    \/ \E t \in VestTimes : AdvanceTo(t)
    \/ Return
    \/ \E id \in StreamIds : get_claimable_i128(id)
    \/ \E id \in StreamIds : withdrawable_amount_i128(id)

SpecWidth == InitWidth /\ [][NextWidth]_vars

\* ===================================================================== claims
\* The linear vesting schedule the claims speak of.
LinearVested(stream, t) ==
    IF t < stream.start_time THEN 0
    ELSE IF t >= stream.end_time THEN stream.total_amount
    ELSE (stream.total_amount * (t - stream.start_time))
             \div (stream.end_time - stream.start_time)

\* The call whose result is pending succeeded and was one of `ops`.
Succeeded(ops) ==
    last.op \in ops /\ last.res = "Ok"

\* Tokens the claims expect the contract to hold for the stream.
EscrowOf(stream) ==
    IF stream.status = "Canceled" THEN 0
    ELSE stream.total_amount - stream.withdrawn_amount

RECURSIVE SumEscrow(_)
SumEscrow(ids) ==
    IF ids = {} THEN 0
    ELSE LET id == CHOOSE x \in ids : TRUE
         IN  EscrowOf(streams[id]) + SumEscrow(ids \ {id})

\* C1 (stated as in the claim; the code violates it): after a successful
\* cancel_stream, withdrawn_amount + refund to the sender + payment to the
\* owner equals total_amount.
C1_Conservation ==
    Succeeded({"cancel_stream"}) =>
        streams[last.id].withdrawn_amount + last.to_sender + last.to_owner
            = streams[last.id].total_amount

\* C2 (stated as in the claim; the code violates it): a successful
\* cancel_stream at time now pays the owner vested(now) - withdrawn_amount and
\* refunds the sender total_amount - vested(now).
C2_CancellationSplit ==
    Succeeded({"cancel_stream"}) =>
        /\ last.to_owner =
               LinearVested(streams[last.id], now) - streams[last.id].withdrawn_amount
        /\ last.to_sender =
               streams[last.id].total_amount - LinearVested(streams[last.id], now)

\* C3 (stated as in the claim; the code violates it): the contract's token
\* balance equals the sum over all streams of total_amount - withdrawn_amount
\* for streams that are not Canceled and 0 for Canceled ones.
C3_EscrowInvariant ==
    bal[Self] = SumEscrow(DOMAIN streams)

\* C4: for every stream, 0 <= withdrawn_amount <= total_amount.
C4_WithdrawnWithinTotal ==
    \A id \in DOMAIN streams :
        /\ 0 <= streams[id].withdrawn_amount
        /\ streams[id].withdrawn_amount <= streams[id].total_amount

\* C4 witness: a claim or withdrawal has just brought a stream's
\* withdrawn_amount up to its total_amount, a later one stays below it.
C4_Witness ==
    /\ Succeeded({"claim", "withdraw", "withdraw_max"})
    /\ streams[last.id].withdrawn_amount = streams[last.id].total_amount
    /\ \E id \in DOMAIN streams :
           /\ 0 < streams[id].withdrawn_amount
           /\ streams[id].withdrawn_amount < streams[id].total_amount

\* C5: a Completed stream has withdrawn_amount = total_amount, and a claim or
\* withdrawal that brings withdrawn_amount to total_amount leaves the stream
\* Completed when it returns.
C5_CompletedIsFullyWithdrawn ==
    /\ \A id \in DOMAIN streams :
           streams[id].status = "Completed" =>
               streams[id].withdrawn_amount = streams[id].total_amount
    /\ (/\ Succeeded({"claim", "withdraw", "withdraw_max"})
        /\ streams[last.id].withdrawn_amount = streams[last.id].total_amount)
       => streams[last.id].status = "Completed"

\* C5 witness: a claim or withdrawal has just completed a stream.
C5_Witness ==
    /\ Succeeded({"claim", "withdraw", "withdraw_max"})
    /\ streams[last.id].status = "Completed"
    /\ last.to_owner > 0

\* The fields of a stream that are fixed at creation.
FixedFields(stream) ==
    <<stream.id, stream.total_amount, stream.start_time, stream.end_time,
      stream.sender, stream.token,
      IF contract = "nft" THEN stream.transferable ELSE FALSE>>

LegalChange(from, to) ==
    \/ from = "Active" /\ to \in {"Paused", "Canceled", "Completed"}
    \/ from = "Paused" /\ to \in {"Active", "Canceled"}

\* C7, first part: a stream is created Active and its status only changes
\* Active->Paused, Paused->Active, Active->Canceled, Paused->Canceled or
\* Active->Completed, each by the operation named for it.
C7_LegalStep ==
    /\ \A id \in DOMAIN streams' \ DOMAIN streams : streams'[id].status = "Active"
    /\ \A id \in DOMAIN streams :
           streams'[id].status # streams[id].status =>
               /\ LegalChange(streams[id].status, streams'[id].status)
               /\ last'.id = id /\ last'.res = "Ok"
               /\ streams'[id].status = "Paused" => last'.op = "pause_stream"
               /\ streams'[id].status = "Active" => last'.op = "resume_stream"
               /\ streams'[id].status = "Canceled" => last'.op = "cancel_stream"
               /\ streams'[id].status = "Completed" =>
                      last'.op \in {"claim", "withdraw", "withdraw_max"}

\* C7, second part: a cancel_stream on an Active or Paused stream that did not
\* cancel it was refused for want of the sender's authorization, nothing else.
C7_CancelSucceeds ==
    (/\ last.op = "cancel_stream"
     /\ last.id \in DOMAIN streams
     /\ streams[last.id].status \in {"Active", "Paused"})
    => last.res = "Unauthorized"

\* C7 (stated as in the claim; the code violates the second part): legal
\* status changes only, Canceled and Completed terminal, and cancel succeeds
\* from both Active and Paused.
C7_StateMachine ==
    [][C7_LegalStep]_vars /\ []C7_CancelSucceeds

\* C7, the part the code keeps: only legal status changes.
C7_LegalTransitions ==
    [][C7_LegalStep]_vars

\* A step that is the call `op` on the stored stream `id`.
Calls(op, id) ==
    last = Idle /\ last'.op = op /\ last'.id = id /\ id \in DOMAIN streams

\* The call of this step failed with `err` and changed no record and no balance.
FailsWith(err) ==
    last'.res = err /\ UNCHANGED store

Terminal(id) ==
    streams[id].status \in {"Canceled", "Completed"}

\* C8, the part common to the claim and its amendment: resume by the sender
\* on an Active stream fails with StreamNotPaused, pause by the sender on a
\* Paused stream fails with StreamNotActive, claim on a Canceled or Completed
\* stream fails with StreamNotActive; nothing is changed.
C8_PauseResumeClaim ==
    \A c \in Addresses, id \in StreamIds :
        /\ (/\ Calls("resume_stream", id) /\ resume_stream(c, id)
            /\ c = streams[id].sender /\ streams[id].status = "Active")
           => FailsWith("StreamNotPaused")
        /\ (/\ Calls("pause_stream", id) /\ pause_stream(c, id)
            /\ c = streams[id].sender /\ streams[id].status = "Paused")
           => FailsWith("StreamNotActive")
        /\ (Calls("claim", id) /\ claim(c, id) /\ Terminal(id))
           => FailsWith("StreamNotActive")

\* withdraw by the recipient on a Canceled or Completed stream fails with
\* `err` and changes nothing.
C8_WithdrawFailsWith(err) ==
    \A c \in Addresses, id \in StreamIds, a \in Amounts :
        (/\ Calls("withdraw", id) /\ withdraw(c, id, a)
         /\ c = streams[id].recipient /\ Terminal(id))
        => FailsWith(err)

\* C8 (as stated, refuted): the illegal calls fail with StreamNotPaused /
\* StreamNotActive, withdraw on a Canceled or Completed stream included.
C8_Original ==
    [][C8_PauseResumeClaim /\ C8_WithdrawFailsWith("StreamNotActive")]_vars

\* C8 (amended): as C8_Original, but withdraw on a Canceled or Completed
\* stream fails with InsufficientWithdrawable.
C8_IllegalTransitionErrors ==
    [][C8_PauseResumeClaim /\ C8_WithdrawFailsWith("InsufficientWithdrawable")]_vars

\* C8 witness: a withdraw on a Canceled or Completed stream has just been
\* refused with InsufficientWithdrawable.
C8_Witness ==
    /\ last.op = "withdraw" /\ last.res = "InsufficientWithdrawable"
    /\ last.id \in DOMAIN streams
    /\ Terminal(last.id)

\* The ownership record of a stored stream (none in payment-stream).
OwnershipOf(id) ==
    IF contract = "nft" THEN ownership[streams[id].ownership_id] ELSE <<>>

\* C9: once a stream is Canceled no step changes its record or its ownership
\* record, and a call on it moves no tokens.
C9_CanceledIsFrozen ==
    [][\A id \in DOMAIN streams :
          streams[id].status = "Canceled" =>
              /\ streams'[id] = streams[id]
              /\ OwnershipOf(id)' = OwnershipOf(id)
              /\ last'.id = id => bal' = bal]_vars

\* C9 witness: a call on a Canceled stream has just returned.
C9_Witness ==
    /\ last.op \in {"claim", "withdraw", "withdraw_max", "cancel_stream",
                    "pause_stream", "resume_stream", "transfer_stream"}
    /\ last.id \in DOMAIN streams
    /\ streams[last.id].status = "Canceled"
    /\ last.res # "Ok"

\* q is the quotient of a by b rounded down (a >= 0, b > 0).
IsFloor(q, a, b) ==
    q * b <= a /\ a < (q + 1) * b

\* v is the linearly vested amount of the stream at time t.
IsLinearlyVested(v, stream, t) ==
    IF t < stream.start_time THEN v = 0
    ELSE IF t >= stream.end_time THEN v = stream.total_amount
    ELSE IsFloor(v, stream.total_amount * (t - stream.start_time),
                 stream.end_time - stream.start_time)

\* The vested amount as each contract computes it at the current time.
VestedByCode(id) ==
    IF contract = "nft" THEN calculate_vested(streams[id], now)
    ELSE withdrawable_amount(id) + streams[id].withdrawn_amount

Refused ==
    last'.res # "Ok" /\ UNCHANGED store

\* This step is a create_stream made with the authorization of `c` for a
\* stream whose sender is `s`.
CreatesFor(c, s) ==
    /\ last = Idle /\ last'.op = "create_stream"
    /\ \E r \in Recipients, a \in Amounts, st \in Times, en \in Times :
           \/ pay_create_stream(c, s, r, a, st, en)
           \/ \E tr \in BOOLEAN : nft_create_stream(c, s, r, a, st, en, tr)

\* C11: a mutating call made without the authorization of the address it
\* requires (create_stream: the sender; withdraw: the recipient; claim and
\* transfer_stream: the owner in the ownership record; pause, resume and
\* cancel: the sender) fails and leaves the stream records, the ownership
\* records, the counters and all token balances unchanged.
C11_Authorization ==
    [][/\ \A c \in Addresses, s \in Senders :
              (c # s /\ CreatesFor(c, s)) => Refused
       /\ \A c \in Addresses, id \in StreamIds :
              (last = Idle /\ id \in DOMAIN streams) =>
                  /\ (/\ c # streams[id].recipient
                      /\ \/ \E a \in Amounts : withdraw(c, id, a)
                         \/ withdraw_max(c, id))
                     => Refused
                  /\ (/\ c # streams[id].sender
                      /\ \/ pause_stream(c, id)
                         \/ resume_stream(c, id)
                         \/ pay_cancel_stream(c, id)
                         \/ nft_cancel_stream(c, id))
                     => Refused
                  /\ (/\ contract = "nft"
                      /\ c # ownership[streams[id].ownership_id].owner
                      /\ \/ claim(c, id)
                         \/ \E nr \in NewRecipients : transfer_stream(c, id, nr))
                     => Refused]_vars

\* C11 witness: a withdrawal or claim on an Active stream with vested tokens
\* waiting has just been refused for want of authorization.
C11_Witness ==
    /\ last.op \in {"withdraw", "withdraw_max", "claim"}
    /\ last.res = "Unauthorized"
    /\ last.id \in DOMAIN streams
    /\ streams[last.id].status = "Active"
    /\ LinearVested(streams[last.id], now) > streams[last.id].withdrawn_amount

\* transfer_stream on a stream created with transferable = false fails, with
\* StreamNotTransferable while the stream is Active and with `err` once it is
\* Canceled or Completed, and changes nothing.
C12_TransferFailsWith(err) ==
    \A c \in Addresses, id \in StreamIds, nr \in NewRecipients :
        (/\ Calls("transfer_stream", id) /\ transfer_stream(c, id, nr)
         /\ ~streams[id].transferable)
        => FailsWith(IF Terminal(id) THEN err ELSE "StreamNotTransferable")

\* C12 (as stated, refuted): transfer_stream on a stream created with
\* transferable = false fails with StreamNotTransferable for every caller and
\* in every status, and leaves the stream and its ownership record unchanged.
C12_Original ==
    [][C12_TransferFailsWith("StreamNotTransferable")]_vars

\* C12 (amended): transfer_stream on a stream created with transferable =
\* false always fails and changes nothing, for every caller: with
\* StreamNotTransferable while the stream is Active, with StreamNotActive once
\* it is Canceled or Completed.
C12_TransferGating ==
    [][C12_TransferFailsWith("StreamNotActive")]_vars

\* C12 witness: a transfer of a Completed stream that was created with
\* transferable = false has just been refused with StreamNotActive.
C12_Witness ==
    /\ last.op = "transfer_stream" /\ last.res = "StreamNotActive"
    /\ last.id \in DOMAIN streams
    /\ ~streams[last.id].transferable
    /\ streams[last.id].status = "Completed"

\* C13, as a state invariant: the owner in the ownership record a stream
\* refers to is the stream's recipient.
C13_InSync ==
    \A id \in DOMAIN streams :
        contract = "nft" =>
            /\ streams[id].ownership_id \in DOMAIN ownership
            /\ ownership[streams[id].ownership_id].owner = streams[id].recipient

\* C13, for a step: a successful transfer_stream(new_recipient) sets the
\* stream's recipient and the record's owner to new_recipient and changes no
\* other field of the stream.
C13_TransferStep ==
    \A c \in Addresses, id \in StreamIds, nr \in NewRecipients :
        (/\ Calls("transfer_stream", id) /\ transfer_stream(c, id, nr)
         /\ last'.res = "Ok")
        => /\ streams'[id] = [streams[id] EXCEPT !.recipient = nr]
           /\ ownership'[streams[id].ownership_id].owner = nr
           /\ streams'[id].ownership_id = streams[id].ownership_id

\* C13: in every reachable state the owner of the ownership record referenced
\* by stream.ownership_id equals stream.recipient, and a successful
\* transfer_stream(new_recipient) sets both to new_recipient and changes
\* nothing else of the stream.
C13_OwnerRecipientSync ==
    []C13_InSync /\ [][C13_TransferStep]_vars

\* C13 witness: a stream from which tokens had been claimed has just been
\* transferred; its recipient and the owner of its record are the new
\* recipient, no longer the one it was created for.
C13_Witness ==
    /\ Succeeded({"transfer_stream"})
    /\ streams[last.id].recipient \in NewRecipients \ Recipients
    /\ ownership[streams[last.id].ownership_id].owner = streams[last.id].recipient
    /\ streams[last.id].withdrawn_amount > 0

\* The address that holds the claim right of a stored nft-stream stream.
OwnerOf(id) ==
    ownership[streams[id].ownership_id].owner

\* C14, the transfer itself: once transfer_stream has moved a stream from A
\* to B, a claim with B's authorization is not refused for want of
\* authorization, and A's authorization is refused for claim and for transfer.
C14_AuthorityMoves ==
    \A A \in Addresses, id \in StreamIds, B \in NewRecipients :
        (/\ Calls("transfer_stream", id) /\ transfer_stream(A, id, B)
         /\ last'.res = "Ok" /\ A # B)
        => /\ claim_result(B, id)' # "Unauthorized"
           /\ claim_result(A, id)' = "Unauthorized"
           /\ transfer_stream_result(A, id)' = "Unauthorized"

\* C14, the later calls: a claim succeeds only with the authorization of the
\* current owner; what a claim or a cancel pays out goes to the current owner
\* (the refund of a cancel to the sender), and nobody else, a former owner
\* included, receives a token.
C14_PaysCurrentOwner ==
    \A id \in StreamIds :
        (/\ contract = "nft" /\ Calls(last'.op, id)
         /\ last'.op \in {"claim", "cancel_stream"} /\ last'.res = "Ok")
        => /\ \A c \in Addresses \ {OwnerOf(id)} : ~claim(c, id)
           /\ last'.op = "claim" => last'.to_owner > 0
           /\ bal'[OwnerOf(id)] = bal[OwnerOf(id)] + last'.to_owner
                  + (IF OwnerOf(id) = streams[id].sender THEN last'.to_sender ELSE 0)
           /\ \A a \in Addresses \ {OwnerOf(id), streams[id].sender} :
                  bal'[a] = bal[a]

\* C14: after a successful transfer_stream from owner A to owner B, every later
\* claim on the stream requires B's authorization and pays B, and cancel pays
\* the vested share to B; A can no longer authorize a claim or a transfer and
\* receives no further tokens from the stream.
C14_PostTransferAuthority ==
    [][C14_AuthorityMoves /\ C14_PaysCurrentOwner]_vars

\* C14 witness: a stream that was transferred to a new owner after its first
\* owner had claimed from it has just paid a claim to the new owner.
C14_Witness ==
    /\ Succeeded({"claim"})
    /\ streams[last.id].recipient \in NewRecipients \ Recipients
    /\ OwnerOf(last.id) = streams[last.id].recipient
    /\ streams[last.id].withdrawn_amount > last.to_owner
    /\ bal[OwnerOf(last.id)] = InitialBalance + last.to_owner

\* The ownership records that name the stream `id`.
RecordsOf(id) ==
    {o \in DOMAIN ownership : ownership[o].stream_id = id}

\* C15, as a state invariant: stream.ownership_id resolves to an existing
\* record that names the stream, it is the only record that does, and no two
\* streams share an ownership_id.
C15_OneRecord ==
    contract = "nft" =>
        /\ \A id \in DOMAIN streams :
               /\ streams[id].ownership_id \in DOMAIN ownership
               /\ ownership[streams[id].ownership_id].stream_id = id
               /\ RecordsOf(id) = {streams[id].ownership_id}
               /\ ownership_to_stream[streams[id].ownership_id] = id
        /\ \A i, j \in DOMAIN streams :
               streams[i].ownership_id = streams[j].ownership_id => i = j

\* C15, for a step: no operation gives an existing stream a second record,
\* deletes its record, or points the stream or the record elsewhere.
C15_RecordKept ==
    contract = "nft" =>
        \A id \in DOMAIN streams :
            /\ streams'[id].ownership_id = streams[id].ownership_id
            /\ RecordsOf(id)' = RecordsOf(id)
            /\ ownership_to_stream'[streams[id].ownership_id] = id

\* C15: in every reachable state each stream has exactly one ownership record
\* (ownership_id resolves to a record whose stream_id is the stream's id, no
\* two streams share an ownership_id), and no operation creates a second
\* record for, deletes, or re-points the record of an existing stream.
C15_OneOwnershipRecord ==
    []C15_OneRecord /\ [][C15_RecordKept]_vars

\* C15 witness: two streams with a record each, the second created after the
\* first had been transferred to a new owner.
C15_Witness ==
    /\ contract = "nft"
    /\ Succeeded({"create_stream"}) /\ last.id = 2
    /\ streams[1].recipient \in NewRecipients \ Recipients
    /\ streams[1].ownership_id # streams[2].ownership_id
    /\ Cardinality(DOMAIN ownership) = 2

\* C16, as a state invariant: the stored streams are exactly those with ids
\* 1..counter, each stored under its own id, and the id a successful
\* create_stream returned is the counter's value.
C16_IdsDense ==
    /\ DOMAIN streams = 1..stream_counter
    /\ \A id \in DOMAIN streams : streams[id].id = id
    /\ Succeeded({"create_stream"}) => last.id = stream_counter

\* C16, for a step: a successful create_stream returns 1 when no stream has
\* been created and the previously returned id plus 1 afterwards, an id under
\* which nothing is stored; no other step moves the counter.
C16_IdsIssued ==
    IF last'.op = "create_stream" /\ last'.res = "Ok" /\ last = Idle
    THEN /\ last'.id = stream_counter + 1
         /\ DOMAIN streams = {} => last'.id = 1
         /\ last'.id \notin DOMAIN streams
         /\ stream_counter' = last'.id
         /\ DOMAIN streams' = DOMAIN streams \cup {last'.id}
    ELSE stream_counter' = stream_counter /\ DOMAIN streams' = DOMAIN streams

C17_Expected(no_retroactive, total_amount, start_time, end_time) ==
    IF total_amount <= 0 THEN "InvalidAmount"
    ELSE IF start_time >= end_time THEN "InvalidTimeRange"
    ELSE IF no_retroactive /\ start_time < now THEN "InvalidStartTime"
    ELSE "Ok"

\* A create_stream authorized by its sender, made with arguments that C17
\* rejects, fails with the error C17 names and stores no stream and no
\* ownership record, moves no counter and no token; `no_retroactive` tells for
\* each contract whether start_time < now is among the rejected arguments.
C17_ValidationStep(no_retroactive) ==
    \A s \in Senders, r \in Recipients, a \in Amounts, st \in Times, en \in Times :
        (/\ last = Idle /\ last'.op = "create_stream"
         /\ \/ pay_create_stream(s, s, r, a, st, en)
            \/ \E tr \in BOOLEAN : nft_create_stream(s, s, r, a, st, en, tr)
         /\ C17_Expected(no_retroactive[contract], a, st, en) # "Ok")
        => FailsWith(C17_Expected(no_retroactive[contract], a, st, en))

\* C17 (stated as in the claim; payment-stream violates it): create_stream
\* fails with InvalidAmount when total_amount <= 0, with InvalidTimeRange when
\* start_time >= end_time and with InvalidStartTime when start_time < now,
\* changing nothing; so every stored stream has total_amount > 0,
\* start_time < end_time and start_time >= its creation time.
C17_CreateValidation ==
    [][C17_ValidationStep([c \in Contracts |-> TRUE])]_vars

\* C17, the part the code keeps: InvalidAmount and InvalidTimeRange in both
\* contracts, InvalidStartTime in nft-stream only.
C17_ValidationKept ==
    [][C17_ValidationStep([c \in Contracts |-> c = "nft"])]_vars

\* The stream `stream` was made from the arguments of create_stream.
C18_Stored(stream, sender, recipient, total_amount, start_time, end_time) ==
    /\ stream.status = "Active" /\ stream.withdrawn_amount = 0
    /\ stream.sender = sender /\ stream.recipient = recipient
    /\ stream.token = Token /\ stream.total_amount = total_amount
    /\ stream.start_time = start_time /\ stream.end_time = end_time

\* The only balances a step changed: `from` has `amount` less and `to` has
\* `amount` more.
Moved(from, to, amount) ==
    /\ bal'[from] = bal[from] - amount
    /\ bal'[to] = bal[to] + amount
    /\ \A x \in DOMAIN bal \ {from, to} : bal'[x] = bal[x]

\* C18: a successful create_stream(sender, recipient, token, total_amount,
\* start, end) stores a stream with status Active, withdrawn_amount 0 and the
\* given fields (transferable too in nft-stream), takes total_amount from the
\* sender's balance and adds exactly total_amount to the contract's balance
\* in the same call.
C18_CreateEffect ==
    [][(last = Idle /\ last'.op = "create_stream" /\ last'.res = "Ok") =>
          \A c \in Addresses, s \in Senders, r \in Recipients, a \in Amounts,
             st \in Times, en \in Times :
              /\ pay_create_stream(c, s, r, a, st, en)
                 => /\ C18_Stored(streams'[last'.id], s, r, a, st, en)
                    /\ Moved(s, Self, a)
              /\ \A tr \in BOOLEAN :
                     nft_create_stream(c, s, r, a, st, en, tr)
                     => /\ C18_Stored(streams'[last'.id], s, r, a, st, en)
                        /\ streams'[last'.id].transferable = tr
                        /\ Moved(s, Self, a)]_vars

\* C18 witness: the second stream has just been created with 2 tokens while
\* the first is still in escrow; the sender has paid for both.
C18_Witness ==
    /\ Succeeded({"create_stream"}) /\ last.id = 2
    /\ streams[2].total_amount = 2 /\ streams[2].withdrawn_amount = 0
    /\ streams[1].status = "Active" /\ streams[1].withdrawn_amount = 0
    /\ bal[Self] = streams[1].total_amount + 2
    /\ bal[streams[2].sender] = InitialBalance - bal[Self]

\* The vested amount of a stream not yet withdrawn, by the linear schedule.
Unwithdrawn(id) ==
    LinearVested(streams[id], now) - streams[id].withdrawn_amount

\* C19: withdraw(amount) by the recipient on an Active stream succeeds exactly
\* when 0 < amount <= withdrawable_amount(now); on success withdrawn_amount
\* grows by amount, the recipient's balance grows by amount and the contract's
\* balance shrinks by amount; otherwise it fails with InsufficientWithdrawable
\* and the stream record and all balances are unchanged.
C19_Withdraw ==
    [][\A id \in StreamIds, a \in Amounts :
          (/\ Calls("withdraw", id) /\ withdraw(streams[id].recipient, id, a)
           /\ streams[id].status = "Active")
          => IF 0 < a /\ a <= Unwithdrawn(id)
             THEN /\ last'.res = "Ok"
                  /\ streams'[id].withdrawn_amount = streams[id].withdrawn_amount + a
                  /\ Moved(Self, streams[id].recipient, a)
             ELSE FailsWith("InsufficientWithdrawable")]_vars

\* C19 witness: a withdraw of part of the withdrawable amount has just
\* succeeded; the stream is still Active with vested tokens left.
C19_Witness ==
    /\ Succeeded({"withdraw"})
    /\ streams[last.id].status = "Active"
    /\ last.to_owner > 0
    /\ streams[last.id].withdrawn_amount = last.to_owner
    /\ Unwithdrawn(last.id) > 0

\* A claim that pays: it returns `claimable`, adds it to withdrawn_amount,
\* pays it to the owner, and get_claimable then returns 0.
C20_Pays(id, claimable) ==
    /\ last'.res = "Ok" /\ last'.to_owner = claimable
    /\ streams'[id].withdrawn_amount = streams[id].withdrawn_amount + claimable
    /\ Moved(Self, OwnerOf(id), claimable)
    /\ get_claimable(id)' = [res |-> "Ok", value |-> 0]

\* A claim by the owner on an Active stream fails with NoTokensToClaim and
\* changes nothing when nothing is claimable, and pays otherwise, unless
\* `may_abort` and the contract holds fewer tokens than are claimable: then
\* it fails in the token transfer and changes nothing.
C20_ClaimStep(may_abort) ==
    \A id \in StreamIds :
        (/\ contract = "nft" /\ Calls("claim", id) /\ claim(OwnerOf(id), id)
         /\ streams[id].status = "Active")
        => IF Unwithdrawn(id) <= 0 THEN FailsWith("NoTokensToClaim")
           ELSE IF may_abort /\ bal[Self] < Unwithdrawn(id)
                THEN FailsWith("TokenTransferFailed")
           ELSE C20_Pays(id, Unwithdrawn(id))

\* C20 (stated as in the claim; the code violates it): claim by the owner on
\* an Active stream with claimable = vested(now) - withdrawn_amount fails with
\* NoTokensToClaim and changes nothing if claimable <= 0; otherwise it returns
\* claimable, adds exactly claimable to withdrawn_amount, pays exactly
\* claimable to the current owner, and get_claimable at the same time then
\* returns 0.
C20_Claim ==
    [][C20_ClaimStep(FALSE)]_vars

\* C20, the part the code keeps: the same, except that a claim aborts when
\* the contract no longer holds the claimable tokens.
C20_ClaimKept ==
    [][C20_ClaimStep(TRUE)]_vars

\* The operations that take the id of a stream.
StreamOps ==
    {"get_stream", "withdrawable_amount", "get_claimable", "withdraw",
     "withdraw_max", "claim", "pause_stream", "resume_stream", "cancel_stream",
     "transfer_stream"}

\* A call of one of `ops` on an id under which no stream was ever created
\* fails with StreamNotFound (and changes nothing).
C21_NotFoundStep(ops) ==
    (/\ last = Idle /\ last'.op \in ops
     /\ last'.id \notin DOMAIN streams)
    => FailsWith("StreamNotFound")

\* C21 (stated as in the claim; payment-stream violates it): get_stream on a
\* stream id that was never created fails with StreamNotFound, it does not
\* return an empty value, and so do withdrawable_amount / get_claimable,
\* withdraw, claim, pause, resume, cancel and transfer on such an id.
C21_NotFound ==
    [][C21_NotFoundStep(StreamOps)]_vars

\* C21, the part the code keeps: every operation on a missing id but
\* payment-stream's get_stream fails with StreamNotFound.
C21_NotFoundKept ==
    [][IF contract = "payment"
       THEN C21_NotFoundStep(StreamOps \ {"get_stream"})
       ELSE C21_NotFoundStep(StreamOps)]_vars

\* What C22 says a read of the claimable amount of a stored stream returns.
C22_Expected(id) ==
    IF streams[id].status = "Active" THEN Unwithdrawn(id) ELSE 0

C23_ClockRuns ==
    /\ \A id \in DOMAIN streams :
           streams[id].status = "Active" =>
               withdrawable_amount(id) = Unwithdrawn(id)
    /\ (/\ last.op = "withdrawable_amount" /\ last.id \in DOMAIN streams
        /\ streams[last.id].status = "Active")
       => last.value = <<Unwithdrawn(last.id)>>

\* C23, for a step: pause and resume leave start_time, end_time, total_amount
\* and withdrawn_amount as they were, and a withdraw or withdraw_max on a
\* Paused stream fails and changes nothing.
C23_PauseStep ==
    \A id \in DOMAIN streams :
        /\ (last'.op \in {"pause_stream", "resume_stream"} /\ last'.id = id)
           => /\ streams'[id].start_time = streams[id].start_time
              /\ streams'[id].end_time = streams[id].end_time
              /\ streams'[id].total_amount = streams[id].total_amount
              /\ streams'[id].withdrawn_amount = streams[id].withdrawn_amount
        /\ (/\ streams[id].status = "Paused" /\ last = Idle
            /\ last'.op \in {"withdraw", "withdraw_max", "claim"} /\ last'.id = id)
           => Refused

\* C23: pause does not freeze the vesting clock: for a stream paused at t1 and
\* resumed at t2 > t1 the withdrawable amount at any t >= t2 is vested(t) -
\* withdrawn_amount from the original start_time and end_time, as if it had
\* never been paused; while Paused no withdraw or claim succeeds.
C23_PauseKeepsClock ==
    []C23_ClockRuns /\ [][C23_PauseStep]_vars

\* C23 witness: a stream of 1000 over 0..100 was paused from time 0 to time
\* 50 (time passes only in pause here) and then resumed; the withdraw_max at
\* time 50 has just paid the 500 that vested during the pause.
C23_Witness ==
    /\ now = 50
    /\ Succeeded({"withdraw_max"}) /\ last.to_owner = 500
    /\ streams[last.id].total_amount = 1000
    /\ streams[last.id].start_time = 0 /\ streams[last.id].end_time = 100
    /\ streams[last.id].status = "Active"

\* The step is a successful `op` on stream `id` that took its status from
\* `from` to `to` and changed no other field of it, no other stream, no
\* ownership record, no counter and no balance.
C24_OnlyStatus(op, id, from, to) ==
    (last = Idle /\ last'.op = op /\ last'.id = id /\ last'.res = "Ok")
    => /\ streams[id].status = from
       /\ streams' = [streams EXCEPT ![id].status = to]
       /\ UNCHANGED <<admin, stream_counter, ownership_counter, ownership,
                      ownership_to_stream, bal>>

\* C24: a successful pause_stream sets Active -> Paused and a successful
\* resume_stream sets Paused -> Active; both leave withdrawn_amount, every
\* other field of the stream, the counters and all token balances unchanged,
\* and a pause followed by a resume restores the exact stream record.
C24_PauseResumeFrame ==
    [][\A id \in DOMAIN streams :
          /\ C24_OnlyStatus("pause_stream", id, "Active", "Paused")
          /\ C24_OnlyStatus("resume_stream", id, "Paused", "Active")
          /\ (last'.op = "pause_stream" /\ last'.id = id /\ last'.res = "Ok")
             => resume_update(streams'[id]) = streams[id]]_vars

\* C24 witness: a stream from which tokens had been withdrawn has just been
\* resumed after a pause.
C24_Witness ==
    /\ Succeeded({"resume_stream"})
    /\ streams[last.id].status = "Active"
    /\ streams[last.id].withdrawn_amount > 0
    /\ streams[last.id].withdrawn_amount < streams[last.id].total_amount

\* The call of this step aborted in the token transfer and nothing persisted.
C25_Aborts ==
    FailsWith("TokenTransferFailed")

\* create_stream with the sender's authorization and valid arguments, for more
\* tokens than the sender holds, aborts.
C25_Create ==
    (last = Idle /\ last'.op = "create_stream") =>
        \A s \in Senders, r \in Recipients, a \in Amounts, st \in Times, en \in Times :
            (/\ \/ pay_create_stream(s, s, r, a, st, en)
                \/ \E tr \in BOOLEAN : nft_create_stream(s, s, r, a, st, en, tr)
             /\ C17_Expected(contract = "nft", a, st, en) = "Ok"
             /\ bal[s] < a)
            => C25_Aborts

\* A payout (claim, withdraw, withdraw_max) that passed every test of the
\* contract, for more tokens than the contract holds, aborts.
C25_Payout ==
    \A id \in StreamIds :
        /\ (/\ contract = "nft" /\ Calls("claim", id) /\ claim(OwnerOf(id), id)
            /\ streams[id].status = "Active"
            /\ Unwithdrawn(id) > 0 /\ bal[Self] < Unwithdrawn(id))
           => C25_Aborts
        /\ \A a \in Amounts :
               (/\ Calls(last'.op, id)
                /\ \/ withdraw(streams[id].recipient, id, a)
                   \/ a = Unwithdrawn(id) /\ withdraw_max(streams[id].recipient, id)
                /\ streams[id].status = "Active"
                /\ 0 < a /\ a <= Unwithdrawn(id) /\ bal[Self] < a)
               => C25_Aborts

\* cancel_stream by the sender, when the contract cannot pay both legs (which
\* add up to total_amount in nft-stream, and to total_amount -
\* withdrawn_amount in payment-stream), aborts: no leg is paid.
C25_Cancel ==
    \A id \in StreamIds :
        /\ (/\ Calls("cancel_stream", id) /\ nft_cancel_stream(streams[id].sender, id)
            /\ streams[id].status = "Active"
            /\ bal[Self] < streams[id].total_amount)
           => C25_Aborts
        /\ (/\ Calls("cancel_stream", id) /\ pay_cancel_stream(streams[id].sender, id)
            /\ streams[id].status \in {"Active", "Paused"}
            /\ bal[Self] < streams[id].total_amount - streams[id].withdrawn_amount)
           => C25_Aborts

C26_Available(id) ==
    IF streams[id].status = "Active" THEN Unwithdrawn(id) ELSE 0

\* A withdraw_max that succeeded: withdrawn_amount is vested(now), the
\* recipient got what was withdrawable, nothing is withdrawable any more, and
\* the record differs from the old one as after withdraw of that amount.
C26_Effect(id) ==
    /\ C26_Available(id) > 0
    /\ streams'[id].withdrawn_amount = LinearVested(streams[id], now)
    /\ Moved(Self, streams[id].recipient, C26_Available(id))
    /\ last'.to_owner = C26_Available(id)
    /\ withdrawable_amount(id)' = 0
    /\ streams' = [streams EXCEPT
                      ![id].withdrawn_amount = @ + C26_Available(id),
                      ![id].status = IF LinearVested(streams[id], now)
                                          = streams[id].total_amount
                                     THEN "Completed" ELSE @]
    /\ UNCHANGED <<admin, stream_counter, ownership_counter, ownership,
                   ownership_to_stream>>

\* C26: withdraw_max on a stream is withdraw(withdrawable_amount(now)): with
\* something withdrawable its outcome for a caller is the outcome of withdraw
\* of that amount for the same caller, on success it raises withdrawn_amount
\* to exactly vested(now), pays the recipient exactly what was withdrawable
\* and leaves withdrawable_amount at 0 for the same time; with nothing
\* withdrawable it fails with InsufficientWithdrawable for every caller and
\* changes nothing.
C26_WithdrawMax ==
    [][\A id \in DOMAIN streams :
          Calls("withdraw_max", id) =>
              /\ \A c \in Addresses :
                     withdraw_max(c, id) =>
                         IF C26_Available(id) <= 0
                         THEN FailsWith("InsufficientWithdrawable")
                         ELSE last'.res = withdraw_result(c, id, C26_Available(id))
              /\ last'.res = "Ok" => C26_Effect(id)
              /\ last'.res # "Ok" => UNCHANGED store]_vars

\* C26 witness: a withdraw_max before the end of the stream has just paid a
\* part of the total, after an earlier withdrawal, and nothing is withdrawable
\* now.
C26_Witness ==
    /\ Succeeded({"withdraw_max"})
    /\ 0 < last.to_owner
    /\ last.to_owner < streams[last.id].withdrawn_amount
    /\ streams[last.id].withdrawn_amount < streams[last.id].total_amount
    /\ withdrawable_amount(last.id) = 0

\* What get_stream(id) answers, as a function of the stored records alone:
\* the stored stream, or nothing when no stream is stored under id.
C27_Data(id) ==
    IF id \in DOMAIN streams THEN <<streams[id]>> ELSE <<>>

\* C27: get_stream answers with the stored record and nothing else (not the
\* time, not the caller, not an earlier call), and changes no stream field,
\* ownership record, counter or balance; so two consecutive get_stream calls
\* on the same id with no mutating operation between them return identical
\* stream data (and fail alike where no stream is stored).
C27_IdempotentRead ==
    [][\A id \in StreamIds :
          (last = Idle /\ last'.op = "get_stream" /\ last'.id = id) =>
              /\ UNCHANGED store
              /\ last'.value = C27_Data(id)
              /\ C27_Data(id)' = C27_Data(id)
              /\ last'.res \in {"Ok", "StreamNotFound"}
              /\ id \in DOMAIN streams => last'.res = "Ok"]_vars

\* C27 witness: get_stream has just returned the record of a stream that was
\* partly withdrawn before, at a time when more of it is vested.
C27_Witness ==
    /\ Succeeded({"get_stream"}) /\ last.id \in DOMAIN streams
    /\ last.value = <<streams[last.id]>>
    /\ 0 < streams[last.id].withdrawn_amount
    /\ streams[last.id].withdrawn_amount < LinearVested(streams[last.id], now)

\* Who collects from a stream: the owner of its ownership record in
\* nft-stream, its recipient in payment-stream.
C28_Owner(id) ==
    IF contract = "nft" THEN OwnerOf(id) ELSE streams[id].recipient

\* The step is a claim (nft-stream) or a withdraw_max (payment-stream) on
\* stream id, made with the authorization of the stream's current owner.
C28_OwnerCollects(id) ==
    \/ contract = "nft" /\ Calls("claim", id) /\ claim(OwnerOf(id), id)
    \/ contract = "payment" /\ Calls("withdraw_max", id)
          /\ withdraw_max(C28_Owner(id), id)

\* C28: for a stream that is Active at a time now >= end_time with
\* withdrawn_amount < total_amount, a claim (or withdraw_max) by the owner
\* succeeds, pays the owner the entire remainder total_amount -
\* withdrawn_amount, rounding residual included, and leaves the stream
\* Completed with nothing of it left in escrow.
C28_FullPayout ==
    [][\A id \in DOMAIN streams :
          (/\ C28_OwnerCollects(id)
           /\ streams[id].status = "Active"
           /\ now >= streams[id].end_time
           /\ streams[id].withdrawn_amount < streams[id].total_amount)
          => /\ last'.res = "Ok"
             /\ Moved(Self, C28_Owner(id),
                      streams[id].total_amount - streams[id].withdrawn_amount)
             /\ streams'[id].status = "Completed"
             /\ EscrowOf(streams'[id]) = 0]_vars

\* C28, what the code keeps: the same full payout at the end, for a stream
\* whose remainder the contract still holds.
C28_PayoutKept ==
    [][\A id \in DOMAIN streams :
          (/\ C28_OwnerCollects(id)
           /\ streams[id].status = "Active"
           /\ now >= streams[id].end_time
           /\ streams[id].withdrawn_amount < streams[id].total_amount
           /\ bal[Self] >= streams[id].total_amount - streams[id].withdrawn_amount)
          => /\ last'.res = "Ok"
             /\ Moved(Self, C28_Owner(id),
                      streams[id].total_amount - streams[id].withdrawn_amount)
             /\ streams'[id].status = "Completed"
             /\ EscrowOf(streams'[id]) = 0]_vars

\* C29, the records: a call on stream A leaves the record and the ownership
\* record of every other stored stream B as they were.
C29_OthersUntouched ==
    [][\A A \in StreamIds, B \in DOMAIN streams :
          (last = Idle /\ last'.op # "none" /\ last'.id = A /\ B # A)
          => /\ B \in DOMAIN streams'
             /\ streams'[B] = streams[B]
             /\ OwnershipOf(B)' = OwnershipOf(B)]_vars

\* C29, the tokens: after a call on stream A the contract holds at least what
\* is escrowed for the other streams, total_amount - withdrawn_amount summed
\* over those that are not Canceled.
C29_OthersEscrowed ==
    last.op # "none" =>
        bal[Self] >= SumEscrow(DOMAIN streams \ {last.id})

\* C29: cross-stream independence. For any interleaving of operations on two
\* distinct stream ids, an operation on stream A leaves stream B's record and
\* ownership record unchanged and never spends tokens escrowed for B.
C29_Independence ==
    []C29_OthersEscrowed /\ C29_OthersUntouched

\* The step is a create_stream that succeeded and returned the id last'.id.
C30_Created ==
    last = Idle /\ last'.op = "create_stream" /\ last'.res = "Ok"

\* C30, the part about the second initialize: once an admin is stored,
\* initialize fails with AlreadyInitialized and changes nothing.
C30_SecondInitialize ==
    [][(last = Idle /\ last'.op = "initialize" /\ admin # NoAdmin)
       => FailsWith("AlreadyInitialized")]_vars

\* C30: a stored stream (and its ownership record) is never overwritten by a
\* later create_stream. For every interleaving of initialize and create_stream
\* calls, a first initialize after streams exist included, the id returned by
\* create_stream has no stream stored under it beforehand (nor has the
\* ownership id it mints a record), every stored stream and ownership record
\* survives the call, and the stream counters never decrease; a second
\* initialize fails with AlreadyInitialized and changes nothing.
C30_NeverOverwritten ==
    /\ [][/\ C30_Created =>
                /\ last'.id \notin DOMAIN streams
                /\ \A id \in DOMAIN streams : streams'[id] = streams[id]
                /\ \A o \in DOMAIN ownership :
                       /\ ownership'[o] = ownership[o]
                       /\ ownership_to_stream'[o] = ownership_to_stream[o]
          /\ stream_counter' >= stream_counter
          /\ ownership_counter' >= ownership_counter]_vars
    /\ C30_SecondInitialize

\* C30 witness of the part that holds: an initialize has just been refused
\* with AlreadyInitialized on a contract that stores a stream.
C30_Refused ==
    /\ last.op = "initialize" /\ last.res = "AlreadyInitialized"
    /\ admin \in Admins
    /\ DOMAIN streams # {}

\* The operations the claim names, as the contracts call them.
C31_Ops ==
    {"create_stream", "get_stream", "get_claimable", "withdrawable_amount",
     "claim", "withdraw", "withdraw_max", "pause_stream", "resume_stream",
     "cancel_stream", "transfer_stream"}

\* The records the pending call touched: the stream stored under its id, and
\* in nft-stream the stream's ownership record for the calls that load or
\* store it (create_stream, claim, transfer_stream, cancel_stream).
C31_Touched ==
    IF last.id \notin DOMAIN streams THEN {}
    ELSE {StreamKey(last.id)}
         \cup (IF /\ contract = "nft"
                  /\ last.op \in {"create_stream", "claim", "transfer_stream",
                                  "cancel_stream"}
               THEN {OwnershipKey(streams[last.id].ownership_id)}
               ELSE {})

\* C31: every operation that reads or writes a stream record or an ownership
\* record (create, get_stream, get_claimable / withdrawable_amount, claim,
\* withdraw, pause, resume, cancel, transfer) has renewed the lease of each
\* record it touched when it returns successfully.
C31_LeaseRenewal ==
    (last.op \in C31_Ops /\ last.res = "Ok") => C31_Touched \subseteq last.renewed

\* C31, what the code keeps: payment-stream renews the lease of the stream on
\* every successful call that found or stored one.
C31_PaymentRenews ==
    contract = "payment" => C31_LeaseRenewal

\* C31_PaymentRenews happens: a withdrawable_amount read of payment-stream has
\* just returned, with the lease of the stream it read renewed.
C31_Renewed ==
    /\ contract = "payment"
    /\ Succeeded({"withdrawable_amount"})
    /\ last.renewed = {StreamKey(last.id)}

\* The time elapsed in the stream's window at time t, as the product takes
\* it: from the end of the window on payment-stream multiplies by the whole
\* duration, nft-stream does not multiply.
C32_Elapsed(stream, t) ==
    IF t < stream.start_time THEN 0
    ELSE IF t >= stream.end_time
    THEN (IF contract = "nft" THEN 0 ELSE stream.end_time - stream.start_time)
    ELSE t - stream.start_time

\* total_amount * elapsed of every stored stream is within the width now.
C32_ProductFits ==
    \A id \in DOMAIN streams :
        streams[id].total_amount * C32_Elapsed(streams[id], now) <= I128_MAX

\* The computation that has just returned did not fail and gave the linear
\* schedule's value.
C32_Computed ==
    last.op \in {"get_claimable", "withdrawable_amount"} =>
        /\ last.res = "Ok"
        /\ last.value = <<Unwithdrawn(last.id)>>

\* C32: the vesting computation has no failure mode on well-formed streams.
\* For every stored stream (0 < total_amount within the signed integer width,
\* start_time < end_time) and every time now, the product total_amount *
\* elapsed does not overflow the signed integer width, so get_claimable /
\* withdrawable_amount (and with them claim, withdraw and cancel) never abort
\* because of arithmetic and return the vested amount less withdrawn_amount.
C32_NoArithmeticFailure ==
    C32_ProductFits /\ C32_Computed

\* C32, what the code keeps: where total_amount * (end_time - start_time) is
\* within the width, the computation never fails and is exact at every time.
C32_ExactWhereItFits ==
    (\A id \in DOMAIN streams :
         streams[id].total_amount * (streams[id].end_time - streams[id].start_time)
             <= I128_MAX)
    => C32_NoArithmeticFailure

\* C32_ExactWhereItFits happens: a read inside the window of a stream with a
\* large total has just returned a part of it.
C32_Exact ==
    /\ last.op \in {"get_claimable", "withdrawable_amount"} /\ last.res = "Ok"
    /\ streams[last.id].total_amount >= (I128_MAX + 1) \div 4
    /\ streams[last.id].total_amount * (streams[last.id].end_time
                                        - streams[last.id].start_time) <= I128_MAX
    /\ last.value # <<0>> /\ last.value # <<streams[last.id].total_amount>>

=============================================================================
